---- MODULE Spec2Model ----
(***************************************************************************)
(* Model of sustainability_calcs/pmv.py: the pure function calculate_pmv   *)
(* and a caller that invokes it.                                           *)
(*                                                                         *)
(* Python floats are modelled as decimal floating-point numbers with an    *)
(* eight digit mantissa, every operation chopping its exact result to      *)
(* eight digits, plus the IEEE specials nan, +inf and -inf.  A raised      *)
(* exception is an absorbing value that every later operation passes on,   *)
(* so the first statement that raises decides the outcome of the call.     *)
(* Finite values stay far inside the range of a double for the inputs      *)
(* drawn here, so overflow is modelled where it can happen: in math.exp.   *)
(***************************************************************************)
EXTENDS Integers, Sequences, FiniteSets, TLC

\* The grids of air temperatures and wind speeds a call may pass reach
\* 10 + 2.5 * MaxTempStep degrees and (MaxWindStep / 10)^2 m/s.
MaxTempStep == 12
MaxWindStep == 10

(***************************************************************************)
(* Floating-point values                                                   *)
(***************************************************************************)

\* Mantissas are whole numbers of eight decimal digits: MantLo <= |m| < 10^8.
\* A product is formed from the mantissas' halves of four digits.
MantLo == 10 ^ 7
Half == 10 ^ 4

\* Every value is a record of the same shape: k is its kind, m and e the
\* mantissa and exponent of a finite value (m * 10^e; m is the sign of an
\* infinity), exc the exception of a raise.
None == [k |-> "None", m |-> 0, e |-> 0, exc |-> ""]
NaN == [k |-> "nan", m |-> 0, e |-> 0, exc |-> ""]
PosInf == [k |-> "inf", m |-> 1, e |-> 0, exc |-> ""]
NegInf == [k |-> "inf", m |-> -1, e |-> 0, exc |-> ""]
Zero == [k |-> "fin", m |-> 0, e |-> 0, exc |-> ""]

Raise(exc) == [k |-> "raise", m |-> 0, e |-> 0, exc |-> exc]
\* The value of a negative float raised to a fractional power in Python 3.
Complex == [k |-> "complex", m |-> 0, e |-> 0, exc |-> ""]

IsFin(x) == x.k = "fin"
IsNaN(x) == x.k = "nan"
IsInf(x) == x.k = "inf"
\* A value no arithmetic continues from: an exception on its way out.
IsRaise(x) == x.k = "raise"

AbsInt(n) == IF n < 0 THEN -n ELSE n
SignInt(n) == IF n < 0 THEN -1 ELSE IF n > 0 THEN 1 ELSE 0

\* The number of decimal digits of n, 0 < n < 2^31.
NDigits(n) ==
  IF n < 10 ^ 5
  THEN (IF n < 10 THEN 1 ELSE IF n < 100 THEN 2 ELSE IF n < 1000 THEN 3
        ELSE IF n < 10 ^ 4 THEN 4 ELSE 5)
  ELSE (IF n < 10 ^ 6 THEN 6 ELSE IF n < 10 ^ 7 THEN 7 ELSE IF n < 10 ^ 8 THEN 8
        ELSE IF n < 10 ^ 9 THEN 9 ELSE 10)

\* n with its last d digits dropped (n >= 0, d >= 0).
ChopShift(n, d) ==
  IF d = 0 THEN n
  ELSE IF d > 9 THEN 0
  ELSE n \div (10 ^ d)

\* The float m * 10^e chopped to eight digits, for an integer |m| < 2^31.
Norm(m, e) ==
  IF m = 0 THEN Zero
  ELSE LET a == AbsInt(m)
           n == NDigits(a)
           r == IF n > 8 THEN ChopShift(a, n - 8) ELSE a * (10 ^ (8 - n))
       IN [k |-> "fin", m |-> SignInt(m) * r, e |-> e + (n - 8), exc |-> ""]

\* A decimal literal of the source: D(5815, -2) is 58.15.
D(m, e) == Norm(m, e)

Neg(x) ==
  IF IsFin(x) \/ IsInf(x) THEN [x EXCEPT !.m = -x.m] ELSE x

\* abs(x)
Abs(x) ==
  IF IsFin(x) \/ IsInf(x) THEN [x EXCEPT !.m = AbsInt(x.m)] ELSE x

\* What two operands that cannot be combined numerically give: the pending
\* exception of the left operand, else of the right, else a complex, else nan.
Absorb(x, y) ==
  IF IsRaise(x) THEN x
  ELSE IF IsRaise(y) THEN y
  ELSE IF x.k = "complex" \/ y.k = "complex" THEN Complex
  ELSE NaN

Special(x) == ~(IsFin(x) \/ IsInf(x))

\* x + y for finite x and y.
AddFin(x, y) ==
  IF x.m = 0 THEN y
  ELSE IF y.m = 0 THEN x
  ELSE LET big == IF x.e >= y.e THEN x ELSE y
           sml == IF x.e >= y.e THEN y ELSE x
           d == big.e - sml.e
       IN IF d = 0 THEN Norm(big.m + sml.m, big.e)
          ELSE IF d > 9 THEN big
          ELSE \* one guard digit
               Norm(big.m * 10
                      + SignInt(sml.m) * ChopShift(AbsInt(sml.m), d - 1),
                    big.e - 1)

\* x + y
Add(x, y) ==
  IF x.k = "fin" /\ y.k = "fin" THEN AddFin(x, y)
  ELSE IF Special(x) \/ Special(y) THEN Absorb(x, y)
  ELSE IF IsInf(x) THEN (IF IsInf(y) /\ y.m # x.m THEN NaN ELSE x)
  ELSE y

\* x - y
Sub(x, y) == Add(x, Neg(y))

\* x * y for finite x and y.
MulFin(x, y) ==
  IF x.m = 0 \/ y.m = 0 THEN Zero
  ELSE LET a == AbsInt(x.m)
           b == AbsInt(y.m)
           ah == a \div Half
           al == a % Half
           bh == b \div Half
           bl == b % Half
           p0 == al * bl
           t == ah * bl + al * bh + (p0 \div Half)
           \* a * b = hi * 10^8 + lo
           hi == ah * bh + (t \div Half)
           lo == (t % Half) * Half + (p0 % Half)
           s == SignInt(x.m) * SignInt(y.m)
       IN IF hi >= MantLo
          THEN Norm(s * hi, x.e + y.e + 8)
          ELSE Norm(s * (hi * 10 + (lo \div MantLo)), x.e + y.e + 7)

\* x * y
Mul(x, y) ==
  IF x.k = "fin" /\ y.k = "fin" THEN MulFin(x, y)
  ELSE IF Special(x) \/ Special(y) THEN Absorb(x, y)
  ELSE IF x.m = 0 \/ y.m = 0 THEN NaN
  ELSE IF SignInt(x.m) = SignInt(y.m) THEN PosInf ELSE NegInf

\* The next n digits of the quotient r / b, appended to q (0 <= r < b).
RECURSIVE DivDigits(_, _, _, _)
DivDigits(r, b, n, q) ==
  IF n = 0 THEN q
  ELSE DivDigits((r * 10) % b, b, n - 1, q * 10 + ((r * 10) \div b))

\* x / y for finite x and y: Python raises ZeroDivisionError when a float is
\* divided by zero.
DivFin(x, y) ==
  IF y.m = 0 THEN Raise("ZeroDivisionError")
  ELSE IF x.m = 0 THEN Zero
  ELSE LET a == AbsInt(x.m)
           b == AbsInt(y.m)
           s == SignInt(x.m) * SignInt(y.m)
           q == DivDigits(a % b, b, 8, a \div b)
       IN Norm(s * q, x.e - y.e - 8)

\* x / y
Div(x, y) ==
  IF x.k = "fin" /\ y.k = "fin" THEN DivFin(x, y)
  ELSE IF Special(x) \/ Special(y) THEN Absorb(x, y)
  ELSE IF IsFin(y) /\ y.m = 0 THEN Raise("ZeroDivisionError")
  ELSE IF IsInf(x)
       THEN (IF IsInf(y) THEN NaN
             ELSE IF SignInt(x.m) = SignInt(y.m) THEN PosInf ELSE NegInf)
  ELSE Zero

\* x > y: false when either side is nan.
Gt(x, y) ==
  LET d == Sub(x, y)
  IN (IsFin(d) \/ IsInf(d)) /\ d.m > 0

\* x < y
Lt(x, y) == Gt(y, x)

\* The element of a set of one element.  Binding a variable to the element
\* of {e} evaluates e once, before the expression that uses the variable.
Only(S) == CHOOSE r \in S : TRUE

\* Newton's iteration for the integer square root, from a start x >= sqrt(n).
RECURSIVE ISqrtIter(_, _)
ISqrtIter(n, x) ==
  LET y == (x + (n \div x)) \div 2
  IN IF y >= x THEN x ELSE ISqrtIter(n, y)

\* The largest integer whose square is at most n (0 < n < 10^9).
ISqrt(n) == ISqrtIter(n, 31623)

\* One Newton step towards sqrt(a): (x + a / x) / 2.
SqrtStep(a, x) == Div(Add(x, Div(a, x)), D(2, 0))

\* A square root that answers nan below zero instead of raising, as
\* numpy.sqrt does.
Sqrt_nan(x) ==
  IF Special(x) THEN Absorb(x, x)
  ELSE IF x.m < 0 THEN NaN
  ELSE IF IsInf(x) \/ x.m = 0 THEN x
  ELSE LET odd == x.e % 2 # 0
           m2 == IF odd THEN x.m * 10 ELSE x.m
           e2 == IF odd THEN x.e - 1 ELSE x.e
           x0 == Norm(ISqrt(m2), e2 \div 2)
       IN Only({SqrtStep(x, x1) : x1 \in {SqrtStep(x, x0)}})

\* math.sqrt(x): raises ValueError ("math domain error") below zero.
Sqrt(x) ==
  IF Special(x) THEN Absorb(x, x)
  ELSE IF x.m < 0 THEN Raise("ValueError")
  ELSE IF IsInf(x) \/ x.m = 0 THEN x
  ELSE LET odd == x.e % 2 # 0
           m2 == IF odd THEN x.m * 10 ELSE x.m
           e2 == IF odd THEN x.e - 1 ELSE x.e
           x0 == Norm(ISqrt(m2), e2 \div 2)
       IN Only({SqrtStep(x, x1) : x1 \in {SqrtStep(x, x0)}})

\* x ** 0.25: a negative base gives a complex number, not an exception.
Pow025(x) ==
  IF Special(x) THEN Absorb(x, x)
  ELSE IF x.m < 0 THEN Complex
  ELSE Only({Sqrt(r) : r \in {Sqrt(x)}})

\* x ** 4
Pow4(x) == LET x2 == Mul(x, x) IN Mul(x2, x2)

\* 1 / i! to eight digits, i in 0..8.
InvFact(i) ==
  CASE i = 0 -> D(1, 0)
    [] i = 1 -> D(1, 0)
    [] i = 2 -> D(5, -1)
    [] i = 3 -> D(16666666, -8)
    [] i = 4 -> D(41666666, -9)
    [] i = 5 -> D(83333333, -10)
    [] i = 6 -> D(13888888, -10)
    [] i = 7 -> D(19841269, -11)
    [] i = 8 -> D(24801587, -12)

\* The Taylor polynomial of exp by Horner's rule:
\* 1/0! + y * (1/1! + y * (... + y * (1/8!))); acc is the part for i+1..8.
RECURSIVE ExpSeries(_, _, _)
ExpSeries(y, i, acc) ==
  IF i < 0 THEN acc
  ELSE Only({ExpSeries(y, i - 1, a) : a \in {Add(InvFact(i), Mul(y, acc))}})

RECURSIVE SquareTimes(_, _)
SquareTimes(x, n) ==
  IF n = 0 THEN x
  ELSE Only({SquareTimes(x2, n - 1) : x2 \in {Mul(x, x)}})

\* The number of halvings that bring a finite x below 1/4 in magnitude.
RECURSIVE Halvings(_, _)
Halvings(x, n) ==
  IF ~Gt(Abs(x), D(25, -2)) THEN n
  ELSE Only({Halvings(h, n + 1) : h \in {Div(x, D(2, 0))}})

\* math.exp(x): raises OverflowError ("math range error") when the result
\* exceeds the largest double, that is for x > 709.78271; underflows to 0.
Exp(x) ==
  IF Special(x) THEN Absorb(x, x)
  ELSE IF IsInf(x) THEN (IF x.m > 0 THEN PosInf ELSE Zero)
  ELSE IF Gt(x, D(70978271, -5)) THEN Raise("OverflowError")
  ELSE IF Lt(x, D(-74513321, -5)) THEN Zero
  ELSE LET n == Halvings(x, 0)
       IN Only({SquareTimes(s, n) :
                  s \in {ExpSeries(y, 7, InvFact(8)) :
                           y \in {Div(x, D(2 ^ n, 0))}}})

(***************************************************************************)
(* calculate_pmv                                                           *)
(***************************************************************************)

\* A statement's value, or the exception already in flight when a statement
\* before it raised: the statement is then never reached.
After(prev, x) == IF IsRaise(prev) THEN prev ELSE x

\* M = met * 58.15
M(met) == Mul(met, D(5815, -2))

\* W = 0
W == Zero

\* Icl = clo * 0.155
Icl(clo) == Mul(clo, D(155, -3))

\* The radiant temperature defaulting to a fixed 25 degrees, not to ta.
tr_default_fixed(tr, ta) == IF tr = None THEN D(25, 0) ELSE tr

\* The radiant temperature left at zero when it is omitted.
tr_default_zero(tr, ta) == IF tr = None THEN Zero ELSE tr

\* if tr is None: tr = ta
tr_default(tr, ta) == IF tr = None THEN ta ELSE tr

\* pws = 0.6108 * math.exp(17.27 * ta / (ta + 237.3))
pws(ta) ==
  Only({Mul(D(6108, -4), ex) :
          ex \in {Exp(Div(Mul(D(1727, -2), ta), Add(ta, D(2373, -1))))}})

\* The vapour pressure derived without the relative humidity: pa = pws.
pa_default_saturated(pa, humidity, ta) == IF pa = None THEN pws(ta) ELSE pa

\* if pa is None: pa = humidity / 100.0 * pws
pa_default(pa, humidity, ta) ==
  IF pa = None THEN Mul(Div(humidity, D(100, 0)), pws(ta)) ELSE pa

\* The threshold taken inclusively: abs(ta - tr) >= 0.1.
hc_natural_inclusive(ta, tr) ==
  LET d == Abs(Sub(ta, tr))
  IN Gt(d, D(1, -1)) \/ d = D(1, -1)

\* The condition of the conditional expression for hc: abs(ta - tr) > 0.1.
hc_natural(ta, tr) == Gt(Abs(Sub(ta, tr)), D(1, -1))

\* The natural-convection form with the abs() forgotten.
hc_natural_form_signed(ta, tr) == Mul(D(238, -2), Pow025(Sub(ta, tr)))

\* The natural-convection form: 2.38 * abs(ta - tr) ** 0.25
hc_natural_form(ta, tr) == Mul(D(238, -2), Pow025(Abs(Sub(ta, tr))))

\* The forced-convection form: 12.1 * math.sqrt(wind_speed)
hc_forced_form(wind_speed) == Mul(D(121, -1), Sqrt(wind_speed))

\* hc = 2.38 * abs(ta - tr) ** 0.25 if abs(ta - tr) > 0.1
\*      else 12.1 * math.sqrt(wind_speed)
hc(ta, tr, wind_speed) ==
  IF hc_natural(ta, tr)
  THEN hc_natural_form(ta, tr)
  ELSE hc_forced_form(wind_speed)

\* The comparison turned around: clo < 0.5.
fcl_upper_reversed(clo) == Lt(clo, D(5, -1))

\* The condition of the conditional expression for fcl: clo > 0.5.
fcl_upper(clo) == Gt(clo, D(5, -1))

\* The formula above the threshold with 1.05 mistyped as 1.5.
fcl_high_mistyped(clo) == Add(D(15, -1), Mul(D(1, -1), clo))

\* The formula above the threshold: 1.05 + 0.1 * clo
fcl_high(clo) == Add(D(105, -2), Mul(D(1, -1), clo))

\* The formula up to the threshold: 1 + 0.2 * clo
fcl_low(clo) == Add(D(1, 0), Mul(D(2, -1), clo))

\* fcl = 1.05 + 0.1 * clo if clo > 0.5 else 1 + 0.2 * clo
fcl(clo) == IF fcl_upper(clo) THEN fcl_high(clo) ELSE fcl_low(clo)

\* tcl = ta + (35.5 - ta) / (3.5 * (6.45 * Icl + 0.1))
tcl(ta, icl) ==
  Add(ta,
      Div(Sub(D(355, -1), ta),
          Mul(D(35, -1), Add(Mul(D(645, -2), icl), D(1, -1)))))

\* hl1 = 3.05 * 0.001 * (5733 - (6.99 * (M - W)) - pa * 1000)
hl1(m, pa) ==
  Mul(Mul(D(305, -2), D(1, -3)),
      Sub(Sub(D(5733, 0), Mul(D(699, -2), Sub(m, W))),
          Mul(pa, D(1000, 0))))

\* hl2 = 0.42 * ((M - W) - 58.15)
hl2(m) == Mul(D(42, -2), Sub(Sub(m, W), D(5815, -2)))

\* hl3 = 1.7 * 0.00001 * M * (5867 - pa * 1000)
hl3(m, pa) ==
  Mul(Mul(Mul(D(17, -1), D(1, -5)), m),
      Sub(D(5867, 0), Mul(pa, D(1000, 0))))

\* hl4 = 0.0014 * M * (34 - ta)
hl4(m, ta) == Mul(Mul(D(14, -4), m), Sub(D(34, 0), ta))

\* hl5 with the difference turned around: fcl * hc * (ta - tcl)
hl5_swapped(f, h, t, ta) == Mul(Mul(f, h), Sub(ta, t))

\* hl5 = fcl * hc * (tcl - ta)
hl5(f, h, t, ta) == Mul(Mul(f, h), Sub(t, ta))

\* hl6 = fcl * 3.96e-8 * ((tcl + 273) ** 4 - (tr + 273) ** 4)
hl6(f, t, tr) ==
  Mul(Mul(f, D(396, -10)),
      Sub(Pow4(Add(t, D(273, 0))), Pow4(Add(tr, D(273, 0)))))

\* pmv = (0.303 * math.exp(-0.036 * M) + 0.028)
\*       * ((M - W) - hl1 - hl2 - hl3 - hl4 - hl5 - hl6)
pmv(m, l1, l2, l3, l4, l5, l6) ==
  Only({Mul(Add(Mul(D(303, -3), ex), D(28, -3)),
            Sub(Sub(Sub(Sub(Sub(Sub(Sub(m, W), l1), l2), l3), l4), l5), l6)) :
          ex \in {Exp(Mul(D(-36, -3), m))}})

(***************************************************************************)
(* The caller                                                              *)
(***************************************************************************)

\* A float written in hundredths: F(2510) is 25.1.
F(n) == D(n, -2)

NonFinite == {NaN, PosInf, NegInf}

\* The example of the __main__ block: calculate_pmv(25, 50, 0.1), the other
\* parameters at their defaults.
Example ==
  [temperature_c |-> F(2500), humidity |-> F(5000), wind_speed |-> F(10),
   met |-> F(120), clo |-> F(50), tr |-> None, pa |-> None]

\* The arguments of a first call: temperature_c, humidity and wind_speed are
\* passed, met and clo are left at the defaults of the signature (1.2 and
\* 0.5), tr and pa are omitted or passed.  -237.3 is the air temperature at
\* which the denominator ta + 237.3 vanishes.
FirstTemps == {F(2000), F(2500), F(3550), F(3750), F(-23730)}
FirstHumidities == {F(0), F(5000)}
FirstWinds == {F(0), F(10)}
FirstTrs == {None, F(2500)}
FirstPas == {None, F(0), F(150)}

FirstArgs ==
  {[temperature_c |-> t, humidity |-> h, wind_speed |-> v, met |-> F(120),
    clo |-> F(50), tr |-> r, pa |-> p] :
     t \in FirstTemps, h \in FirstHumidities, v \in FirstWinds,
     r \in FirstTrs, p \in FirstPas}

\* The values a later call may pass instead, parameter by parameter: valid
\* ones, ones that leave the domain of an operation, and non-finite ones.
Temps ==
  {F(1000 + 250 * i) : i \in 0..MaxTempStep}
    \cup {F(2480), F(2490), F(2495), F(2505), F(2510), F(2520), F(3550)}
    \cup {F(-23730), F(-24000)} \cup NonFinite
Humidities == {F(0), F(5000), F(10000)} \cup NonFinite
Winds ==
  {F(i * i) : i \in 0..MaxWindStep} \cup {F(-1), F(-100)} \cup NonFinite
Mets == {F(80), F(120), F(400)} \cup NonFinite
Clos ==
  {F(0), F(25), F(49), F(50), F(51), F(60), F(100), F(200)}
    \cup {D(-10002501, -8)} \cup NonFinite
\* A radiant temperature is passed as such or taken at an offset from the
\* air temperature of the call.
TrOffsets == {0, 5, -5, 10, -10, 11, -11, 100, -100}
Trs(ta) ==
  {None, F(1000), F(2500), F(4000)}
    \cup (IF IsFin(ta) THEN {Add(ta, F(d)) : d \in TrOffsets} ELSE {})
    \cup NonFinite
Pas == {None, F(0), F(150), F(300)} \cup NonFinite

Params == {"temperature_c", "humidity", "wind_speed", "met", "clo", "tr", "pa"}

Values(p, a) ==
  CASE p = "temperature_c" -> Temps
    [] p = "humidity" -> Humidities
    [] p = "wind_speed" -> Winds
    [] p = "met" -> Mets
    [] p = "clo" -> Clos
    [] p = "tr" -> Trs(a.temperature_c)
    [] p = "pa" -> Pas

\* The frame of no call: nothing is bound.
NoFrame ==
  [tr |-> None, pa |-> None, hc |-> None, fcl |-> None, tcl |-> None,
   ret |-> None]

\* No call made.
NoCall == [made |-> FALSE, args |-> Example, frame |-> NoFrame]

\* last is the caller's latest call of calculate_pmv (its arguments and its
\* frame at the end) and prev the call before it.
VARIABLES last, prev

vars == <<last, prev>>

Init == last = NoCall /\ prev = NoCall

\* One call of calculate_pmv(**a), statement by statement: each local variable
\* is the value its statement computes, or the exception in flight when a
\* statement before it raised.  The call ends with the value returned or the
\* exception raised in ret, and is recorded as the latest call.
calculate_pmv(a) ==
  \E M_ \in {M(a.met)} :
  \E Icl_ \in {Icl(a.clo)} :
  \E ta_ \in {a.temperature_c} :
  \E tr_ \in {tr_default(a.tr, ta_)} :
  \E pa_ \in {pa_default(a.pa, a.humidity, ta_)} :
  \E hc_ \in {After(pa_, hc(ta_, tr_, a.wind_speed))} :
  \E fcl_ \in {After(hc_, fcl(a.clo))} :
  \E tcl_ \in {After(fcl_, tcl(ta_, Icl_))} :
  \E hl1_ \in {After(tcl_, hl1(M_, pa_))} :
  \E hl2_ \in {After(hl1_, hl2(M_))} :
  \E hl3_ \in {After(hl2_, hl3(M_, pa_))} :
  \E hl4_ \in {After(hl3_, hl4(M_, ta_))} :
  \E hl5_ \in {After(hl4_, hl5(fcl_, hc_, tcl_, ta_))} :
  \E hl6_ \in {After(hl5_, hl6(fcl_, tcl_, tr_))} :
  \E pmv_ \in {After(hl6_, pmv(M_, hl1_, hl2_, hl3_, hl4_, hl5_, hl6_))} :
    last' = [made |-> TRUE, args |-> a,
             frame |-> [tr |-> tr_, pa |-> pa_, hc |-> hc_, fcl |-> fcl_,
                        tcl |-> tcl_, ret |-> pmv_]]

\* The caller's first call.
FirstCall(a) ==
  /\ ~last.made
  /\ calculate_pmv(a)
  /\ UNCHANGED prev

\* The caller calls once more, with one argument changed.
NextCall(p, x) ==
  /\ last.made
  /\ ~prev.made
  /\ x # last.args[p]
  /\ prev' = last
  /\ calculate_pmv([last.args EXCEPT ![p] = x])

Next ==
  \/ \E a \in FirstArgs : FirstCall(a)
  \/ \E p \in Params : \E x \in Values(p, last.args) : NextCall(p, x)

Spec == Init /\ [][Next]_vars

(***************************************************************************)
(* Properties                                                              *)
(***************************************************************************)

\* The whole hundredths of a finite x, rounded down: an exact integer for
\* the arguments drawn above, read off the digits without float arithmetic.
Hundredths(x) ==
  IF x.m = 0 THEN 0
  ELSE IF x.e >= -2 THEN x.m * (10 ^ (x.e + 2))
  ELSE x.m \div (10 ^ (-(x.e + 2)))

\* x is a finite float of lo..hi hundredths.
Within(x, lo, hi) ==
  IsFin(x) /\ x.m >= 0 /\ Hundredths(x) >= lo /\ Hundredths(x) <= hi
     /\ (Hundredths(x) < hi \/ x = F(hi))

\* The physically valid arguments: ta in 10..40, rh in 0..100, v >= 0, met in
\* 0.8..4, clo in 0..2, tr omitted or in 10..40, pa omitted or >= 0.
ValidArgs(a) ==
  /\ Within(a.temperature_c, 1000, 4000)
  /\ Within(a.humidity, 0, 10000)
  /\ IsFin(a.wind_speed) /\ a.wind_speed.m >= 0
  /\ Within(a.met, 80, 400)
  /\ Within(a.clo, 0, 200)
  /\ (a.tr = None \/ Within(a.tr, 1000, 4000))
  /\ (a.pa = None \/ (IsFin(a.pa) /\ a.pa.m >= 0))

\* The two latest calls differ in the argument p and in no other.
OnlyChanged(p) ==
  /\ prev.made
  /\ prev.args[p] # last.args[p]
  /\ \A q \in Params \ {p} : prev.args[q] = last.args[q]

\* |ta - tr| of a call in hundredths, tr being ta when omitted; both finite.
GapHundredths(a) ==
  IF a.tr = None THEN 0
  ELSE AbsInt(Hundredths(a.temperature_c) - Hundredths(a.tr))

FiniteTemps(a) == IsFin(a.temperature_c) /\ (a.tr = None \/ IsFin(a.tr))

\* C1: a call with tr omitted binds tr to ta, uses the forced-convection form
\* 12.1*sqrt(v) whenever it gets as far as hc, and ends exactly as the call
\* that passes tr = ta does (same value or same exception, same locals).
C1_TrOmittedIsTa ==
  /\ (last.made /\ last.args.tr = None)
       => /\ last.frame.tr = last.args.temperature_c
          /\ ~IsRaise(last.frame.pa)
               => last.frame.hc = hc_forced_form(last.args.wind_speed)
  /\ (OnlyChanged("tr")
        /\ {prev.args.tr, last.args.tr} = {None, last.args.temperature_c})
       => last.frame = prev.frame

\* A call with tr omitted followed by the same call with tr = ta passed, both
\* returning a number.
C1_Witness ==
  /\ OnlyChanged("tr")
  /\ prev.args.tr = None
  /\ last.args.tr = last.args.temperature_c
  /\ IsFin(prev.frame.ret)
  /\ last.frame.ret = prev.frame.ret

\* The calls the latest two are when one omits pa with rh = 0 and the other
\* passes pa = 0, all else equal.
C2_Pair ==
  /\ OnlyChanged("pa")
  /\ last.args.humidity = Zero
  /\ {prev.args.pa, last.args.pa} = {None, Zero}

\* The local pa of the call of such a pair that omits pa.
C2_DerivedPa == IF prev.args.pa = None THEN prev.frame.pa ELSE last.frame.pa

\* C2 as claimed: for all ta, omitting pa with rh = 0 ends as passing pa = 0
\* does.
C2_AsClaimed == C2_Pair => last.frame.ret = prev.frame.ret

\* C2 amended: for every finite ta at which the saturation pressure is
\* computed without an exception (ta + 237.3 is not zero and math.exp does not
\* overflow), omitting pa with rh = 0 derives pa = 0 and the call ends exactly
\* as the call passing pa = 0 does.
C2_DerivedPaZero ==
  (C2_Pair /\ IsFin(last.args.temperature_c) /\ ~IsRaise(C2_DerivedPa))
    => /\ C2_DerivedPa = Zero
       /\ last.frame = prev.frame

\* A call omitting pa with rh = 0 that returns a number, followed by the same
\* call with pa = 0 passed.
C2_Witness ==
  /\ C2_Pair
  /\ prev.args.pa = None
  /\ prev.frame.pa = Zero
  /\ IsFin(prev.frame.ret)
  /\ last.frame.ret = prev.frame.ret

AboveHalf(clo) ==
  IF IsInf(clo) THEN clo.m > 0 ELSE clo.m > 0 /\ Hundredths(clo) > 50

\* C4: fcl is 1.05 + 0.1*clo exactly when clo > 0.5 and 1 + 0.2*clo for every
\* clo <= 0.5, clo = 0.5 included.
C4_FclThreshold ==
  (last.made /\ ~IsNaN(last.args.clo) /\ ~IsRaise(last.frame.hc))
    => last.frame.fcl =
         IF AboveHalf(last.args.clo)
         THEN fcl_high(last.args.clo)
         ELSE fcl_low(last.args.clo)

\* A call with clo = 0.5 followed by one with clo just above: the first takes
\* 1 + 0.2*clo, the second 1.05 + 0.1*clo, and there the formulas differ.
C4_Witness ==
  /\ OnlyChanged("clo")
  /\ prev.args.clo = F(50)
  /\ prev.frame.fcl = fcl_low(prev.args.clo)
  /\ last.args.clo = F(60)
  /\ last.frame.fcl = fcl_high(last.args.clo)
  /\ last.frame.fcl # fcl_low(last.args.clo)

\* The denominator ta + 237.3 of the exponent of pws, as the call computes it.
PwsDenominator(a) == Add(a.temperature_c, D(2373, -1))

\* The denominator 6.45*Icl + 0.1 of tcl, as the call computes it.
TclDenominator(a) == Add(Mul(D(645, -2), Icl(a.clo)), D(1, -1))

\* C5: a call whose operation leaves its real domain ends in an exception:
\* math.sqrt of a negative v (ValueError), the division by 6.45*Icl + 0.1 = 0
\* in tcl and by ta + 237.3 = 0 where pa is derived (ZeroDivisionError); and
\* no call returns a complex number, the base of ** 0.25 being an abs().
C5_DomainErrorsRaise ==
  last.made
    => /\ last.frame.ret.k # "complex"
       /\ (last.args.pa = None /\ PwsDenominator(last.args) = Zero)
            => last.frame.ret = Raise("ZeroDivisionError")
       /\ (IsFin(last.args.wind_speed) /\ last.args.wind_speed.m < 0
             /\ ~IsRaise(last.frame.pa)
             /\ ~hc_natural(last.args.temperature_c, last.frame.tr))
            => last.frame.ret = Raise("ValueError")
       /\ (TclDenominator(last.args) = Zero /\ ~IsRaise(last.frame.hc))
            => last.frame.ret = Raise("ZeroDivisionError")

\* A call with a negative v that reaches math.sqrt and ends in ValueError.
C5_Witness ==
  /\ last.made
  /\ last.args.wind_speed.m < 0
  /\ ~IsRaise(last.frame.pa)
  /\ last.frame.ret = Raise("ValueError")

\* C6: a call with physically valid arguments raises nothing and returns one
\* number, never a complex one.
C6_ValidNeverRaises ==
  (last.made /\ ValidArgs(last.args))
    => /\ ~IsRaise(last.frame.ret)
       /\ last.frame.ret.k \in {"fin", "inf", "nan"}

\* A valid call with tr passed and below ta by more than 0.1, so that the
\* natural form takes the fourth root, returning a finite number.
C6_Witness ==
  /\ prev.made
  /\ ValidArgs(last.args)
  /\ last.args.tr # None
  /\ Hundredths(last.args.tr) < Hundredths(last.args.temperature_c) - 10
  /\ IsFin(last.frame.ret)

\* C7 as claimed: a call with a NaN or infinite argument never returns an
\* ordinary finite number.
C7_NonFiniteNeverMasked ==
  (last.made /\ \E p \in Params : last.args[p] \in NonFinite)
    => ~IsFin(last.frame.ret)

\* The calls the latest two are when they differ in v alone, v >= 0 in both
\* and every argument valid.
C8_Pair ==
  /\ OnlyChanged("wind_speed")
  /\ ValidArgs(prev.args)
  /\ ValidArgs(last.args)

\* The results of such a pair at the lower and at the higher v.
C8_AtLowerV ==
  IF Lt(prev.args.wind_speed, last.args.wind_speed)
  THEN prev.frame.ret ELSE last.frame.ret
C8_AtHigherV ==
  IF Lt(prev.args.wind_speed, last.args.wind_speed)
  THEN last.frame.ret ELSE prev.frame.ret

\* C8 as claimed: for every valid choice of the other arguments, the result
\* at the higher v is strictly lower.
C8_AsClaimed == C8_Pair => Lt(C8_AtHigherV, C8_AtLowerV)

\* C8 amended: with the other arguments valid and fixed, a higher v gives a
\* strictly lower result when the forced form is in use (tr omitted or
\* |ta - tr| <= 0.1) and ta is below 35.5; the result does not depend on v when
\* |ta - tr| > 0.1 or ta = 35.5, and it is higher when the forced form is in
\* use and ta is above 35.5.
C8_LowerWhenForcedBelowTcl ==
  C8_Pair
    => IF GapHundredths(last.args) > 10
            \/ Hundredths(last.args.temperature_c) = 3550
       THEN C8_AtHigherV = C8_AtLowerV
       ELSE IF Hundredths(last.args.temperature_c) < 3550
       THEN Lt(C8_AtHigherV, C8_AtLowerV)
       ELSE Gt(C8_AtHigherV, C8_AtLowerV)

\* Two calls with tr omitted at ta = 25, the second at a higher v and with a
\* strictly lower result.
C8_Witness ==
  /\ C8_Pair
  /\ last.args.tr = None
  /\ last.args.temperature_c = F(2500)
  /\ Lt(prev.args.wind_speed, last.args.wind_speed)
  /\ Lt(last.frame.ret, prev.frame.ret)

\* The calls the latest two are when they differ in ta alone, ta in 20..30 in
\* both and every argument valid.
C9_Pair ==
  /\ OnlyChanged("temperature_c")
  /\ ValidArgs(prev.args)
  /\ ValidArgs(last.args)
  /\ Within(prev.args.temperature_c, 2000, 3000)
  /\ Within(last.args.temperature_c, 2000, 3000)

\* The results of such a pair at the lower and at the higher ta.
C9_AtLowerTa ==
  IF Lt(prev.args.temperature_c, last.args.temperature_c)
  THEN prev.frame.ret ELSE last.frame.ret
C9_AtHigherTa ==
  IF Lt(prev.args.temperature_c, last.args.temperature_c)
  THEN last.frame.ret ELSE prev.frame.ret

\* C9 as claimed: the result at the higher ta is higher, with tr omitted and
\* with tr passed as a fixed value that ta crosses within 0.1.
C9_AsClaimed == C9_Pair => Gt(C9_AtHigherTa, C9_AtLowerTa)

\* C9 amended: with tr omitted (so that it follows ta) and the other arguments
\* valid and fixed, the result at the higher ta of 20..30 is higher.
C9_WarmerWhenTrOmitted ==
  (C9_Pair /\ last.args.tr = None) => Gt(C9_AtHigherTa, C9_AtLowerTa)

\* Two calls with tr omitted, the second at a higher ta of 20..30 and with a
\* higher result.
C9_Witness ==
  /\ C9_Pair
  /\ last.args.tr = None
  /\ Lt(prev.args.temperature_c, last.args.temperature_c)
  /\ Gt(last.frame.ret, prev.frame.ret)

\* C10 as claimed: at clo = 0.5 the value of 1 + 0.2*clo, which the call
\* takes, differs from the value of 1.05 + 0.1*clo there.
C10_AsClaimed ==
  (last.made /\ last.args.clo = F(50) /\ ~IsRaise(last.frame.hc))
    => last.frame.fcl # fcl_high(last.args.clo)

\* C10 amended: fcl is continuous at clo = 0.5: the value of 1 + 0.2*clo, which
\* the call takes there, equals the value of 1.05 + 0.1*clo, both 1.1, and fcl
\* moves by 0.001 when clo moves from 0.5 to 0.51; the slope alone changes.
C10_ContinuousAtHalf ==
  /\ (last.made /\ last.args.clo = F(50) /\ ~IsRaise(last.frame.hc))
       => /\ last.frame.fcl = D(11, -1)
          /\ last.frame.fcl = fcl_high(last.args.clo)
  /\ (OnlyChanged("clo") /\ {prev.args.clo, last.args.clo} = {F(50), F(51)}
        /\ ~IsRaise(last.frame.hc) /\ ~IsRaise(prev.frame.hc))
       => {prev.frame.fcl, last.frame.fcl} = {D(11, -1), D(1101, -3)}

\* A call with clo = 0.5 followed by the same call with clo = 0.51: fcl goes
\* from 1.1 to 1.101.
C10_Witness ==
  /\ OnlyChanged("clo")
  /\ prev.args.clo = F(50)
  /\ prev.frame.fcl = D(11, -1)
  /\ last.args.clo = F(51)
  /\ last.frame.fcl = D(1101, -3)

====
